---- MODULE Spec2Model ----
(***************************************************************************)
(* Model of examples.py: the five example functions and the __main__      *)
(* driver that runs them one after the other, each in its own             *)
(* try/except Exception block.                                            *)
(*                                                                         *)
(* Numbers.  Python floats are modelled as fixed-point integers:          *)
(*   H0 in hundredths (-6.73 is -673), t_fall and redshift z in tenths    *)
(*   (13.8 is 138, z = 1.0 is 10), distance moduli in thousandths,        *)
(*   M_bh as a pair [m, e] meaning m * 10^e (1e23 is [m |-> 1, e |-> 23]).*)
(*                                                                         *)
(* Collaborators (CosmologyData, LVILC_MCMC, LVILCModel, pyplot) are not  *)
(* part of the file.  Every call into them is a step that either returns  *)
(* or raises; what they return is a fixed function of their arguments.    *)
(***************************************************************************)
EXTENDS Integers, Sequences, FiniteSets, TLC

VARIABLES
    pc,          \* position of the interpreter
    asMain,      \* __name__ == '__main__'
    blk,         \* number of the try statement of __main__ in progress (0: none)
    cur,         \* number of the example function whose frame is live (0: none)
    out,         \* standard output, one element per printed line
    files,       \* names of the files written, in order
    started,     \* example numbers in the order their calls began
    outcome,     \* per example: "none", "running", "returned" or "raised"
    raisedLog,   \* per example: the exception that left its frame (NoExc: none)
    exc,         \* the exception in flight (NoExc: none)
    param_names, \* LVILC_MCMC.param_names as the imported module defines it
    loc,         \* local variables of the live example frame
    calls,       \* collaborator calls made by the live example frame, in order
    retval       \* value returned by the example function that just returned

vars == <<pc, asMain, blk, cur, out, files, started, outcome, raisedLog, exc,
          param_names, loc, calls, retval>>

(***************************************************************************)
(* Bounds and value universes                                              *)
(***************************************************************************)
MaxParams == 2

ParamUniverse == {"H0", "M_bh", "t_fall"}

Injective(s) == \A a, b \in DOMAIN s : s[a] = s[b] => a = b

ParamNameLists ==
    {s \in UNION {[1..n -> ParamUniverse] : n \in 0..MaxParams} : Injective(s)}

None == [kind |-> "None"]

NoExc == [cls |-> "none", text |-> ""]

\* What a collaborator call can raise: an ordinary error or an interrupt.
CollabClasses == {"RuntimeError", "KeyboardInterrupt"}

\* str(e) of an exception raised by a collaborator call made by example k.
ExcText(k) == <<"failure in 1", "failure in 2", "failure in 3",
               "failure in 4", "failure in 5">>[k]

\* The exceptions a collaborator call made by the running example can raise.
CollabRaises == {[cls |-> c, text |-> ExcText(cur)] : c \in CollabClasses}

\* isinstance(e, Exception): KeyboardInterrupt, SystemExit and GeneratorExit
\* derive from BaseException only.
IsException(cls) == cls \in {"RuntimeError", "ImportError", "IndexError"}

Examples == 1..5

(***************************************************************************)
(* Formatting                                                              *)
(***************************************************************************)
Abs(x) == IF x < 0 THEN -x ELSE x

\* x / d rounded to the nearest integer, ties to even (Python's format()).
RoundDiv(x, d) ==
    LET q == x \div d
        r == x % d
    IN  IF 2 * r < d THEN q
        ELSE IF 2 * r > d THEN q + 1
        ELSE IF q % 2 = 0 THEN q ELSE q + 1

\* f"{v:.2f}" of a value held in thousandths: the value in hundredths.
Fmt2f(v) == RoundDiv(v, 10)

\* f"{v:.3f}" of a value held in thousandths.
Fmt3f(v) == RoundDiv(v, 1)

RECURSIVE SciNorm(_, _)
SciNorm(m, e) ==
    IF Abs(m) >= 10000 THEN SciNorm(RoundDiv(m, 10), e + 1)
    ELSE IF m # 0 /\ Abs(m) < 1000 THEN SciNorm(m * 10, e - 1)
    ELSE [m |-> m, e |-> e]

\* f"{v:.3e}" of an integer v: four significant digits m and the exponent e
\* of the last of them, v ~ m * 10^e.
Fmt3e(v) == SciNorm(v, 0)

(***************************************************************************)
(* Collaborator results                                                    *)
(***************************************************************************)
ParamIndex(p) == CASE p = "H0" -> 1 [] p = "M_bh" -> 2 [] p = "t_fall" -> 3

\* LVILC_MCMC.get_results(sampler): one {median, std} entry per parameter,
\* depending on the parameter and on the run that produced the sampler.
GetResults(mcmc, sampler) ==
    LET shift == IF sampler.initial_params = None THEN 0 ELSE 7
    IN  [p \in {mcmc.param_names[n] : n \in DOMAIN mcmc.param_names} |->
            [median |-> 123456 * ParamIndex(p) + shift,
             std    |-> 2345 * ParamIndex(p) + 3 * shift]]

\* LVILCModel(H0=..., M_bh=..., t_fall=...)
LVILCModel(H0, M_bh, t_fall) ==
    [kind |-> "LVILCModel", H0 |-> H0, M_bh |-> M_bh, t_fall |-> t_fall]

\* model.distance_modulus(z), in thousandths.
DistanceModulus(model, z) ==
    40000 + 250 * z + model.H0 + 11 * model.M_bh.e + 3 * model.t_fall

\* model.luminosity_distance(z), in thousandths of a Mpc.
LuminosityDistance(model, z) ==
    1000 * z * (30 + z) + model.M_bh.e - model.H0

\* model.hubble_parameter(z), in thousandths.
HubbleParameter(model, z) ==
    (0 - model.H0) * (100 + 3 * z) + model.t_fall

(***************************************************************************)
(* Initial state                                                           *)
(***************************************************************************)
EmptyLoc ==
    [data |-> None, mcmc |-> None, sampler |-> None, results |-> None,
     initial_params |-> None, model |-> None, i |-> 0, s |-> 0,
     z_range |-> << >>, lvilc_mu |-> << >>, lcdm_mu |-> << >>]

Init ==
    /\ pc = "import"
    /\ asMain \in BOOLEAN
    /\ blk = 0
    /\ cur = 0
    /\ out = << >>
    /\ files = << >>
    /\ started = << >>
    /\ outcome = [k \in Examples |-> "none"]
    /\ raisedLog = [k \in Examples |-> NoExc]
    /\ exc = NoExc
    /\ param_names = << >>
    /\ loc = EmptyLoc
    /\ calls = << >>
    /\ retval = None

(***************************************************************************)
(* Module level: imports and the __main__ block                            *)
(***************************************************************************)
Rule == [tag |-> "rule"]

Title(k) == [tag |-> "title", ex |-> k]

\* Lines 11-19.  The imports run outside every try block.
Import ==
    /\ pc = "import"
    /\ \/ /\ \E names \in ParamNameLists : param_names' = names
          /\ pc' = IF asMain THEN "main_header" ELSE "idle"
          /\ UNCHANGED exc
       \/ /\ exc' = [cls |-> "ImportError", text |-> "No module named"]
          /\ pc' = "crashed"
          /\ UNCHANGED param_names
    /\ UNCHANGED <<asMain, blk, cur, out, files, started, outcome, raisedLog,
                   loc, calls, retval>>

\* Lines 203-205.
Main_Header ==
    /\ pc = "main_header"
    /\ out' = out \o <<Rule, Title(0), Rule>>
    /\ blk' = 1
    /\ pc' = "try"
    /\ UNCHANGED <<asMain, cur, files, started, outcome, raisedLog, exc,
                   param_names, loc, calls, retval>>

\* First statement of example k.
Entry(k) ==
    CASE k \in {1, 2} -> "ex_data"
      [] k = 3 -> "e3_model"
      [] k = 4 -> "e4_model"
      [] k = 5 -> "e5_sweep"

\* The third try statement calling example 2 again.
Callee_Repeat(b) == IF b = 3 THEN 2 ELSE b

\* The example function the b-th try statement calls
\* (lines 209, 214, 219, 224, 229).
Callee(b) == b

\* try: example_...()
Main_Try ==
    /\ pc = "try"
    /\ cur' = Callee(blk)
    /\ started' = Append(started, Callee(blk))
    /\ outcome' = [outcome EXCEPT ![Callee(blk)] = "running"]
    /\ pc' = Entry(Callee(blk))
    /\ loc' = EmptyLoc
    /\ calls' = << >>
    /\ UNCHANGED <<asMain, blk, out, files, raisedLog, exc, param_names,
                   retval>>

\* Where control goes once the b-th try statement is over.
AfterTry(b) == IF b < 5 THEN "try" ELSE "main_banner"

NextBlk(b) == IF b < 5 THEN b + 1 ELSE 0

\* The example returned; its return value is dropped and the try statement
\* ends.
Main_Returned ==
    /\ pc = "returned"
    /\ asMain
    /\ pc' = AfterTry(blk)
    /\ blk' = NextBlk(blk)
    /\ cur' = 0
    /\ loc' = EmptyLoc
    /\ calls' = << >>
    /\ retval' = None
    /\ UNCHANGED <<asMain, out, files, started, outcome, raisedLog, exc,
                   param_names>>

\* A handler that names one exception class only.
Catches_Narrow(cls) == cls = "ImportError"

\* except Exception (lines 210, 215, 220, 225, 230).
Catches(cls) == IsException(cls)

\* A handler message without the exception's text.
ErrorLine_NoText(b, e) == [tag |-> "error", ex |-> b, text |-> ""]

\* print(f"Example b error: {e}") (lines 211, 216, 221, 226, 231).
ErrorLine(b, e) == [tag |-> "error", ex |-> b, text |-> e.text]

\* The exception reaches the b-th try statement: the handler prints and the
\* statement ends, or the exception leaves the script.
Main_Except ==
    /\ pc = "raised"
    /\ asMain
    /\ IF Catches(exc.cls)
       THEN /\ out' = Append(out, ErrorLine(blk, exc))
            /\ pc' = AfterTry(blk)
            /\ blk' = NextBlk(blk)
            /\ exc' = NoExc
       ELSE /\ pc' = "crashed"
            /\ blk' = 0
            /\ UNCHANGED <<out, exc>>
    /\ cur' = 0
    /\ loc' = EmptyLoc
    /\ calls' = << >>
    /\ UNCHANGED <<asMain, files, started, outcome, raisedLog, param_names,
                   retval>>

Banner == [tag |-> "banner"]

\* Lines 233-235.
Main_Banner ==
    /\ pc = "main_banner"
    /\ out' = out \o <<Rule, Banner, Rule>>
    /\ pc' = "exit"
    /\ UNCHANGED <<asMain, blk, cur, files, started, outcome, raisedLog, exc,
                   param_names, loc, calls, retval>>

(***************************************************************************)
(* The module imported by another program (line 202 is false): the         *)
(* importer calls one example function and gets its result or exception.   *)
(***************************************************************************)
Direct_Call ==
    /\ pc = "idle"
    /\ ~asMain
    /\ \E k \in Examples :
          /\ cur' = k
          /\ started' = Append(started, k)
          /\ outcome' = [outcome EXCEPT ![k] = "running"]
          /\ pc' = Entry(k)
    /\ UNCHANGED <<asMain, blk, out, files, raisedLog, exc, param_names, loc,
                   calls, retval>>

Direct_Done ==
    /\ pc \in {"returned", "raised"}
    /\ ~asMain
    /\ pc' = IF pc = "returned" THEN "exit" ELSE "crashed"
    /\ UNCHANGED <<asMain, blk, cur, out, files, started, outcome, raisedLog, exc,
                   param_names, loc, calls, retval>>

(***************************************************************************)
(* Leaving an example frame                                                *)
(***************************************************************************)
\* An exception e leaves the frame of the running example.
Raise(e) ==
    /\ exc' = e
    /\ pc' = "raised"
    /\ outcome' = [outcome EXCEPT ![cur] = "raised"]
    /\ raisedLog' = [raisedLog EXCEPT ![cur] = e]
    /\ UNCHANGED retval

\* return v
Return(v) ==
    /\ retval' = v
    /\ pc' = "returned"
    /\ outcome' = [outcome EXCEPT ![cur] = "returned"]
    /\ UNCHANGED <<exc, raisedLog>>

\* The frame goes on to position p.
Goto(p) ==
    /\ pc' = p
    /\ UNCHANGED <<exc, raisedLog, outcome, retval>>

(***************************************************************************)
(* Examples 1 and 2: example_basic_mcmc, example_custom_initial_params     *)
(***************************************************************************)
\* np.array([-8.0, 5e23, 14.5]) (line 56).
InitialParams ==
    [kind |-> "array", v |-> <<-800, [m |-> 5, e |-> 23], 145>>]

\* Lines 26-28 and 51-60: what is printed before the data loader is built.
Preamble(k) ==
    IF k = 1
    THEN <<Rule, Title(1), Rule>>
    ELSE <<Rule, Title(2), Rule,
           [tag |-> "using"],
           [tag |-> "init_H0", v |-> InitialParams.v[1]],
           [tag |-> "init_M_bh", v |-> InitialParams.v[2]],
           [tag |-> "init_t_fall", v |-> InitialParams.v[3]]>>

\* Keyword arguments of run_mcmc (lines 35 and 65-71).
RunArgs(k) ==
    [initial_params |-> IF k = 1 THEN None ELSE InitialParams,
     nwalkers |-> 16, nsteps |-> 1000, burn_in |-> 200, progress |-> FALSE]

\* data = CosmologyData() (lines 31, 62), after the opening prints.
Ex_Data ==
    /\ pc = "ex_data"
    /\ out' = out \o Preamble(cur)
    /\ calls' = Append(calls, [fn |-> "CosmologyData"])
    /\ LET ip == IF cur = 2 THEN InitialParams ELSE None
       IN  \/ /\ loc' = [loc EXCEPT !.initial_params = ip,
                                    !.data = [kind |-> "CosmologyData"]]
              /\ Goto("ex_mcmc")
           \/ /\ loc' = [loc EXCEPT !.initial_params = ip]
              /\ \E e \in CollabRaises : Raise(e)
    /\ UNCHANGED <<asMain, blk, cur, files, started, param_names>>

\* mcmc = LVILC_MCMC(data_loader=data) (lines 32, 63).
Ex_Mcmc ==
    /\ pc = "ex_mcmc"
    /\ calls' = Append(calls, [fn |-> "LVILC_MCMC", data_loader |-> loc.data])
    /\ \/ /\ loc' = [loc EXCEPT !.mcmc = [kind |-> "LVILC_MCMC",
                                          data_loader |-> loc.data,
                                          param_names |-> param_names]]
          /\ Goto("ex_run")
       \/ /\ \E e \in CollabRaises : Raise(e)
          /\ UNCHANGED loc
    /\ UNCHANGED <<asMain, blk, cur, out, files, started, param_names>>

\* sampler = mcmc.run_mcmc(...) (lines 35, 65-71).
Ex_Run ==
    /\ pc = "ex_run"
    /\ calls' = Append(calls, [fn |-> "run_mcmc", args |-> RunArgs(cur)])
    /\ \/ /\ loc' = [loc EXCEPT !.sampler =
                        [kind |-> "sampler", of |-> loc.mcmc,
                         initial_params |-> RunArgs(cur).initial_params]]
          /\ Goto("ex_results")
       \/ /\ \E e \in CollabRaises : Raise(e)
          /\ UNCHANGED loc
    /\ UNCHANGED <<asMain, blk, cur, out, files, started, param_names>>

\* results = mcmc.get_results(sampler), then print("\nResults:")
\* (lines 38-40, 73-75).
Ex_Results ==
    /\ pc = "ex_results"
    /\ calls' = Append(calls, [fn |-> "get_results", sampler |-> loc.sampler])
    /\ \/ /\ loc' = [loc EXCEPT !.results = GetResults(loc.mcmc, loc.sampler),
                                !.i = 0]
          /\ out' = Append(out, [tag |-> "results"])
          /\ Goto("ex_print")
       \/ /\ \E e \in CollabRaises : Raise(e)
          /\ UNCHANGED <<loc, out>>
    /\ UNCHANGED <<asMain, blk, cur, files, started, param_names>>

\* The median and the std printed in each other's place.
ParamLine_Swapped(param, results) ==
    [tag |-> "param", name |-> param,
     median |-> Fmt3e(results[param].std),
     std |-> Fmt3e(results[param].median)]

\* The line printed for one parameter (lines 42, 77).
ParamLine(param, results) ==
    [tag |-> "param", name |-> param,
     median |-> Fmt3e(results[param].median),
     std |-> Fmt3e(results[param].std)]

\* One iteration of "for param in mcmc.param_names" (lines 41-42, 76-77).
Ex_Print ==
    /\ pc = "ex_print"
    /\ loc.i < Len(loc.mcmc.param_names)
    /\ out' = Append(out, ParamLine(loc.mcmc.param_names[loc.i + 1],
                                    loc.results))
    /\ loc' = [loc EXCEPT !.i = loc.i + 1]
    /\ Goto("ex_print")
    /\ UNCHANGED <<asMain, blk, cur, files, started, param_names, calls>>

\* return results (lines 44, 79).
Ex_Return ==
    /\ pc = "ex_print"
    /\ loc.i >= Len(loc.mcmc.param_names)
    /\ Return(loc.results)
    /\ UNCHANGED <<asMain, blk, cur, out, files, started, param_names, loc, calls>>

(***************************************************************************)
(* Example 3: example_model_prediction                                     *)
(***************************************************************************)
H0_base == -673

M_bh_base == [m |-> 1, e |-> 23]

t_fall_base == 138

\* redshifts = [0.1, 0.5, 1.0, 1.5, 2.0] (line 98)
redshifts == <<1, 5, 10, 15, 20>>

\* model = LVILCModel(...) and the table heading (lines 86-102).
E3_Model ==
    /\ pc = "e3_model"
    /\ LET m == LVILCModel(H0_base, M_bh_base, t_fall_base)
           head == <<Rule, Title(3), Rule>>
       IN  /\ calls' = Append(calls, [fn |-> "LVILCModel", model |-> m])
           /\ \/ /\ loc' = [loc EXCEPT !.model = m, !.i = 0]
                 /\ out' = out \o head \o
                        <<[tag |-> "predictions"], [tag |-> "columns"],
                          [tag |-> "dashes"]>>
                 /\ Goto("e3_loop")
              \/ /\ out' = out \o head
                 /\ \E e \in CollabRaises : Raise(e)
                 /\ UNCHANGED loc
    /\ UNCHANGED <<asMain, blk, cur, files, started, param_names>>

\* The three queries of one iteration (lines 105-107).
Queries(model, z) ==
    <<[fn |-> "luminosity_distance", model |-> model, z |-> z],
      [fn |-> "distance_modulus", model |-> model, z |-> z],
      [fn |-> "hubble_parameter", model |-> model, z |-> z]>>

PredictionLine(model, z) ==
    [tag |-> "prediction", z |-> Fmt2f(100 * z),
     d_L |-> Fmt2f(LuminosityDistance(model, z)),
     mu |-> Fmt2f(DistanceModulus(model, z)),
     H_z |-> Fmt2f(HubbleParameter(model, z))]

\* One iteration of "for z in redshifts" (lines 104-108): the n-th query may
\* raise, otherwise the row is printed.
E3_Loop ==
    /\ pc = "e3_loop"
    /\ loc.i < Len(redshifts)
    /\ LET z == redshifts[loc.i + 1]
       IN  \/ /\ calls' = calls \o Queries(loc.model, z)
              /\ out' = Append(out, PredictionLine(loc.model, z))
              /\ loc' = [loc EXCEPT !.i = loc.i + 1]
              /\ Goto("e3_loop")
           \/ /\ \E n \in 1..3 :
                    calls' = calls \o SubSeq(Queries(loc.model, z), 1, n)
              /\ \E e \in CollabRaises : Raise(e)
              /\ UNCHANGED <<out, loc>>
    /\ UNCHANGED <<asMain, blk, cur, files, started, param_names>>

\* return model (line 110).
E3_Return ==
    /\ pc = "e3_loop"
    /\ loc.i >= Len(redshifts)
    /\ Return(loc.model)
    /\ UNCHANGED <<asMain, blk, cur, out, files, started, param_names, loc, calls>>

(***************************************************************************)
(* Example 4: example_compare_models                                       *)
(***************************************************************************)
GridPoints == 20

\* np.linspace(start, stop, num), arguments and result in tenths.
Linspace(start, stop, num) ==
    [n \in 1..num |-> start + ((n - 1) * (stop - start)) \div (num - 1)]

RECURSIVE Pow10(_)
Pow10(n) == IF n = 0 THEN 1 ELSE 10 * Pow10(n - 1)

RECURSIVE Digits(_)
Digits(d) == IF d < 10 THEN 1 ELSE 1 + Digits(d \div 10)

\* Binary digits of log10(y / 1000) for 1000 <= y < 10000, by repeated
\* squaring; the result is a numerator over 2^bits.
RECURSIVE LogFrac(_, _, _)
LogFrac(y, bits, acc) ==
    IF bits = 0 THEN acc
    ELSE LET sq == (y * y) \div 1000
         IN  IF sq >= 10000
             THEN LogFrac(sq \div 10, bits - 1, 2 * acc + 1)
             ELSE LogFrac(sq, bits - 1, 2 * acc)

\* np.log10(d) for an integer d >= 1, in thousandths (truncated fixed point).
Log10(d) ==
    LET n == Digits(d) - 1
        y == (d * 1000) \div Pow10(n)
    IN  1000 * n + (1000 * LogFrac(y, 12, 0)) \div 4096

\* Redshifts, in tenths, on which lcdm_distance_modulus is tabulated.
ZDomain == 1..20

\* lcdm_distance_modulus(z) (lines 126-130) as a function of z in tenths,
\* result in thousandths: d_L = 3000 * z * (1 + z/2) = 15 * zt * (20 + zt).
lcdm_distance_modulus ==
    [z \in ZDomain |->
        LET d_L == 15 * z * (20 + z)
        IN  5 * Log10(d_L) + 25000]

\* lvilc_model = LVILCModel(...) (line 122) and z_range (line 133).
E4_Model ==
    /\ pc = "e4_model"
    /\ out' = out \o <<Rule, Title(4), Rule>>
    /\ LET m == LVILCModel(H0_base, M_bh_base, t_fall_base)
       IN  /\ calls' = Append(calls, [fn |-> "LVILCModel", model |-> m])
           /\ \/ /\ loc' = [loc EXCEPT !.model = m, !.i = 0,
                                       !.z_range = Linspace(1, 20, GridPoints)]
                 /\ Goto("e4_lvilc")
              \/ /\ \E e \in CollabRaises : Raise(e)
                 /\ UNCHANGED loc
    /\ UNCHANGED <<asMain, blk, cur, files, started, param_names>>

\* One element of [lvilc_model.distance_modulus(z) for z in z_range]
\* (line 135).
E4_Lvilc ==
    /\ pc = "e4_lvilc"
    /\ loc.i < Len(loc.z_range)
    /\ LET z == loc.z_range[loc.i + 1]
       IN  /\ calls' = Append(calls, [fn |-> "distance_modulus",
                                      model |-> loc.model, z |-> z])
           /\ \/ /\ loc' = [loc EXCEPT
                              !.lvilc_mu = Append(@, DistanceModulus(loc.model, z)),
                              !.i = loc.i + 1]
                 /\ Goto("e4_lvilc")
              \/ /\ \E e \in CollabRaises : Raise(e)
                 /\ UNCHANGED loc
    /\ UNCHANGED <<asMain, blk, cur, out, files, started, param_names>>

\* range(start, stop, step) for step > 0, as the sequence of its values.
Range(start, stop, step) ==
    [n \in 1..(IF stop > start THEN (stop - start + step - 1) \div step ELSE 0)
        |-> start + (n - 1) * step]

\* A table loop that runs one index past the end of the lists.
TableRows_Overrun(z_range) == Range(0, Len(z_range) + 1, 4)

\* for i in range(0, len(z_range), 4) (line 142)
TableRows(z_range) == Range(0, Len(z_range), 4)

\* [lcdm_distance_modulus(z) for z in z_range] and the table heading
\* (lines 136-140).
E4_Lcdm ==
    /\ pc = "e4_lvilc"
    /\ loc.i >= Len(loc.z_range)
    /\ loc' = [loc EXCEPT
                 !.lcdm_mu = [n \in 1..Len(loc.z_range) |->
                                 lcdm_distance_modulus[loc.z_range[n]]],
                 !.i = 0]
    /\ out' = out \o <<[tag |-> "comparison"], [tag |-> "columns"],
                       [tag |-> "dashes"]>>
    /\ Goto("e4_table")
    /\ UNCHANGED <<asMain, blk, cur, files, started, param_names, calls>>

\* The difference taken the other way round.
RowLine_Reversed(i, z_range, lvilc_mu, lcdm_mu) ==
    [tag |-> "row", i |-> i, z |-> Fmt2f(100 * z_range[i + 1]),
     lvilc |-> Fmt2f(lvilc_mu[i + 1]), lcdm |-> Fmt2f(lcdm_mu[i + 1]),
     diff |-> Fmt2f(lcdm_mu[i + 1] - lvilc_mu[i + 1])]

\* The table row for grid index i, counted from 0 (lines 143-145).
RowLine(i, z_range, lvilc_mu, lcdm_mu) ==
    [tag |-> "row", i |-> i, z |-> Fmt2f(100 * z_range[i + 1]),
     lvilc |-> Fmt2f(lvilc_mu[i + 1]), lcdm |-> Fmt2f(lcdm_mu[i + 1]),
     diff |-> Fmt2f(lvilc_mu[i + 1] - lcdm_mu[i + 1])]

IndexError == [cls |-> "IndexError", text |-> "list index out of range"]

\* One iteration of the table loop (lines 142-145).  Indexing a list past
\* its end raises IndexError.
E4_Table ==
    /\ pc = "e4_table"
    /\ loc.i < Len(TableRows(loc.z_range))
    /\ LET i == TableRows(loc.z_range)[loc.i + 1]
       IN  IF /\ i < Len(loc.z_range)
              /\ i < Len(loc.lvilc_mu)
              /\ i < Len(loc.lcdm_mu)
           THEN /\ out' = Append(out, RowLine(i, loc.z_range, loc.lvilc_mu,
                                              loc.lcdm_mu))
                /\ loc' = [loc EXCEPT !.i = loc.i + 1]
                /\ Goto("e4_table")
           ELSE /\ Raise(IndexError)
                /\ UNCHANGED <<out, loc>>
    /\ UNCHANGED <<asMain, blk, cur, files, started, param_names, calls>>

\* The pyplot calls of lines 148-155.
PlotCalls(z_range, lvilc_mu, lcdm_mu) ==
    <<[fn |-> "figure"],
      [fn |-> "plot", x |-> z_range, y |-> lvilc_mu, label |-> "LVILC"],
      [fn |-> "plot", x |-> z_range, y |-> lcdm_mu, label |-> "LCDM"],
      [fn |-> "xlabel"], [fn |-> "ylabel"], [fn |-> "title"],
      [fn |-> "legend"], [fn |-> "grid"]>>

\* Lines 148-155: the figure is drawn; any of the pyplot calls may raise.
E4_Plot ==
    /\ pc = "e4_table"
    /\ loc.i >= Len(TableRows(loc.z_range))
    /\ LET pcs == PlotCalls(loc.z_range, loc.lvilc_mu, loc.lcdm_mu)
       IN  \/ /\ calls' = calls \o pcs
              /\ Goto("e4_save")
           \/ /\ \E n \in 1..Len(pcs) : calls' = calls \o SubSeq(pcs, 1, n)
              /\ \E e \in CollabRaises : Raise(e)
    /\ UNCHANGED <<asMain, blk, cur, out, files, started, param_names, loc>>

PlotFile == "model_comparison_example.png"

\* The function without its savefig call.
E4_Save_NoWrite ==
    /\ pc = "e4_save"
    /\ out' = Append(out, [tag |-> "saved", file |-> PlotFile])
    /\ Return(loc.model)
    /\ UNCHANGED <<asMain, blk, cur, files, started, param_names, loc, calls>>

\* plt.savefig(...), the closing print and return lvilc_model
\* (lines 156-159).
E4_Save ==
    /\ pc = "e4_save"
    /\ calls' = Append(calls, [fn |-> "savefig", file |-> PlotFile])
    /\ \/ /\ files' = Append(files, PlotFile)
          /\ out' = Append(out, [tag |-> "saved", file |-> PlotFile])
          /\ Return(loc.model)
       \/ /\ \E e \in CollabRaises : Raise(e)
          /\ UNCHANGED <<files, out>>
    /\ UNCHANGED <<asMain, blk, cur, started, param_names, loc>>

(***************************************************************************)
(* Example 5: example_parameter_sensitivity                                *)
(***************************************************************************)
z_test == 10

\* Two values of the list exchanged.
H0_range_Reordered == <<-500, -800, -673, -1000>>

H0_range == <<-500, -673, -800, -1000>>

M_bh_range == <<[m |-> 1, e |-> 22], [m |-> 1, e |-> 23],
                [m |-> 1, e |-> 24], [m |-> 1, e |-> 25]>>

t_fall_range == <<120, 138, 150, 170>>

Sweeps == <<"H0", "M_bh", "t_fall">>

\* The list the s-th loop iterates over (lines 179, 187, 195).
SweepRange(s) ==
    CASE s = 1 -> H0_range [] s = 2 -> M_bh_range [] s = 3 -> t_fall_range

\* The second loop passing H0, the variable the first loop left at -10.0,
\* in place of H0_base.
SweepModel_Leak(s, v) ==
    CASE s = 1 -> LVILCModel(v, M_bh_base, t_fall_base)
      [] s = 2 -> LVILCModel(H0_range[Len(H0_range)], v, t_fall_base)
      [] s = 3 -> LVILCModel(H0_base, M_bh_base, v)

\* The model the s-th loop builds for the value v (lines 181, 189, 197).
SweepModel(s, v) ==
    CASE s = 1 -> LVILCModel(v, M_bh_base, t_fall_base)
      [] s = 2 -> LVILCModel(H0_base, v, t_fall_base)
      [] s = 3 -> LVILCModel(H0_base, M_bh_base, v)

\* The heading of a sweep (lines 178, 186, 194); the first one follows the
\* title of the example (lines 166-168).
E5_Sweep ==
    /\ pc = "e5_sweep"
    /\ LET s == loc.s + 1
       IN  /\ out' = out \o (IF s = 1 THEN <<Rule, Title(5), Rule>> ELSE << >>)
                         \o <<[tag |-> "sensitivity", param |-> Sweeps[s]]>>
           /\ loc' = [loc EXCEPT !.s = s, !.i = 0]
    /\ Goto("e5_iter")
    /\ UNCHANGED <<asMain, blk, cur, files, started, param_names, calls>>

SensitivityLine(s, v, mu) ==
    [tag |-> "sens", param |-> Sweeps[s], v |-> v, mu |-> Fmt3f(mu)]

\* A loop body that swallows the exception and goes on with the next value.
E5_Iter_Continue ==
    /\ pc = "e5_iter"
    /\ loc.i < Len(SweepRange(loc.s))
    /\ LET v == SweepRange(loc.s)[loc.i + 1]
           m == SweepModel(loc.s, v)
           ctor == [fn |-> "LVILCModel", model |-> m]
           query == [fn |-> "distance_modulus", model |-> m, z |-> z_test]
       IN  \/ /\ calls' = calls \o <<ctor, query>>
              /\ out' = Append(out, SensitivityLine(loc.s, v,
                                        DistanceModulus(m, z_test)))
              /\ loc' = [loc EXCEPT !.model = m, !.i = loc.i + 1]
           \/ /\ calls' = calls \o <<ctor, query>>
              /\ loc' = [loc EXCEPT !.i = loc.i + 1]
              /\ UNCHANGED out
    /\ Goto("e5_iter")
    /\ UNCHANGED <<asMain, blk, cur, files, started, param_names>>

\* One iteration of a sweep (lines 180-183, 188-191, 196-199): build the
\* model, query it at z_test, print.  Either call may raise.
E5_Iter ==
    /\ pc = "e5_iter"
    /\ loc.i < Len(SweepRange(loc.s))
    /\ LET v == SweepRange(loc.s)[loc.i + 1]
           m == SweepModel(loc.s, v)
           ctor == [fn |-> "LVILCModel", model |-> m]
           query == [fn |-> "distance_modulus", model |-> m, z |-> z_test]
       IN  \/ /\ calls' = calls \o <<ctor, query>>
              /\ out' = Append(out, SensitivityLine(loc.s, v,
                                        DistanceModulus(m, z_test)))
              /\ loc' = [loc EXCEPT !.model = m, !.i = loc.i + 1]
              /\ Goto("e5_iter")
           \/ /\ calls' = Append(calls, ctor)
              /\ \E e \in CollabRaises : Raise(e)
              /\ UNCHANGED <<out, loc>>
           \/ /\ calls' = calls \o <<ctor, query>>
              /\ loc' = [loc EXCEPT !.model = m]
              /\ \E e \in CollabRaises : Raise(e)
              /\ UNCHANGED out
    /\ UNCHANGED <<asMain, blk, cur, files, started, param_names>>

\* A sweep is over: on to the next one, or off the end of the function,
\* which returns None.
E5_EndSweep ==
    /\ pc = "e5_iter"
    /\ loc.i >= Len(SweepRange(loc.s))
    /\ IF loc.s < Len(Sweeps)
       THEN Goto("e5_sweep")
       ELSE Return(None)
    /\ UNCHANGED <<asMain, blk, cur, out, files, started, param_names, loc, calls>>

Next ==
    \/ Import \/ Main_Header \/ Main_Try \/ Main_Returned \/ Main_Except
    \/ Main_Banner \/ Direct_Call \/ Direct_Done
    \/ Ex_Data \/ Ex_Mcmc \/ Ex_Run \/ Ex_Results \/ Ex_Print \/ Ex_Return
    \/ E3_Model \/ E3_Loop \/ E3_Return
    \/ E4_Model \/ E4_Lvilc \/ E4_Lcdm \/ E4_Table \/ E4_Plot \/ E4_Save
    \/ E5_Sweep \/ E5_Iter \/ E5_EndSweep

Spec == Init /\ [][Next]_vars

\* Every enabled step is eventually taken: the interpreter does not stop by
\* itself, and a collaborator call comes back, by returning or by raising.
FairSpec == Spec /\ WF_vars(Next)

(***************************************************************************)
(* Properties                                                              *)
(***************************************************************************)
Lines(tag) == SelectSeq(out, LAMBDA l : l.tag = tag)

Terminated == pc \in {"exit", "crashed"}

StartedSet == {started[n] : n \in DOMAIN started}

\* Example k raised and the exception has left its try statement.
Handled(k) == outcome[k] = "raised" /\ ~(cur = k /\ pc = "raised")

ErrorLinesFor(k) == SelectSeq(out, LAMBDA l : l.tag = "error" /\ l.ex = k)

CallsTo(fn) == SelectSeq(calls, LAMBDA c : c.fn = fn)

BannerCount == Len(Lines("banner"))

\* C1 as stated: run as main, every exception raised inside example k is
\* caught, one message with its text is printed for example k, and the
\* examples k+1..5 are still executed.
C1_EveryExceptionCaught ==
    asMain =>
        \A k \in Examples :
            Handled(k) =>
                /\ ErrorLinesFor(k) =
                       <<[tag |-> "error", ex |-> k, text |-> raisedLog[k].text]>>
                /\ Terminated => \A j \in (k + 1)..5 : j \in StartedSet

\* C1 amended: run as main, every exception raised inside example k that is
\* an instance of Exception is caught, exactly one message with its text is
\* printed for example k (and none for an example that did not raise), and
\* each example j in k+1..5 is still executed unless an example between k and
\* j raised an exception that is not an instance of Exception.
C1_ExceptionCaught ==
    asMain =>
        \A k \in Examples :
            /\ (Handled(k) /\ IsException(raisedLog[k].cls)) =>
                  /\ ErrorLinesFor(k) =
                        <<[tag |-> "error", ex |-> k,
                           text |-> raisedLog[k].text]>>
                  /\ Terminated =>
                        \A j \in (k + 1)..5 :
                            \/ j \in StartedSet
                            \/ \E i \in (k + 1)..(j - 1) :
                                  /\ outcome[i] = "raised"
                                  /\ ~IsException(raisedLog[i].cls)
            /\ outcome[k] # "raised" => ErrorLinesFor(k) = << >>

C1_Witness ==
    /\ asMain
    /\ pc = "exit"
    /\ raisedLog[1] = [cls |-> "RuntimeError", text |-> "failure in 1"]
    /\ raisedLog[4] = [cls |-> "RuntimeError", text |-> "failure in 4"]
    /\ outcome[5] = "returned"

C3_NoFatalCondition ==
    (asMain /\ Terminated) =>
        /\ BannerCount = 1
        /\ \A k \in Examples : outcome[k] \in {"returned", "raised"}

C3_Fatal ==
    asMain =>
        /\ BannerCount <= 1
        /\ BannerCount = 1 =>
              \A k \in Examples : outcome[k] \in {"returned", "raised"}
        /\ pc = "exit" => BannerCount = 1
        /\ pc = "crashed" =>
              \/ exc.cls = "ImportError" /\ started = << >>
              \/ /\ ~IsException(exc.cls)
                 /\ started # << >>
                 /\ raisedLog[started[Len(started)]] = exc

\* C3 amended: the fatal conditions are a failing module-level import and an
\* exception raised inside an example that is not an instance of Exception;
\* every run of the script ends, and one that did not end in one of those two
\* ways has printed the closing banner exactly once, after all five examples
\* were attempted.
C3_BannerReached == []C3_Fatal /\ <>Terminated

C3_Witness ==
    /\ asMain
    /\ pc = "exit"
    /\ BannerCount = 1
    /\ \A k \in Examples : outcome[k] = "raised"

\* The parameter the n-th model of example 5 varies, and its value there.
SweptParam(n) == IF n <= 4 THEN "H0" ELSE IF n <= 8 THEN "M_bh" ELSE "t_fall"

SweptValue(n, m) ==
    IF n <= 4 THEN m.H0 ELSE IF n <= 8 THEN m.M_bh ELSE m.t_fall

\* The values of lines 179, 187 and 195, in the order of the three loops.
C4_Values ==
    <<-500, -673, -800, -1000,
      [m |-> 1, e |-> 22], [m |-> 1, e |-> 23], [m |-> 1, e |-> 24],
      [m |-> 1, e |-> 25],
      120, 138, 150, 170>>

\* C4: while example_parameter_sensitivity runs, the n-th model query and
\* the n-th printed sensitivity line are for the n-th value of
\* H0 = [-5.0, -6.73, -8.0, -10.0], M_bh = [1e22, 1e23, 1e24, 1e25],
\* t_fall = [12.0, 13.8, 15.0, 17.0] taken in that order, and when the
\* function returns all twelve values have been evaluated, once each.
C4_SweepLists ==
    cur = 5 =>
        LET q == CallsTo("distance_modulus")
            l == Lines("sens")
        IN  /\ Len(q) <= 12
            /\ \A n \in 1..Len(q) : SweptValue(n, q[n].model) = C4_Values[n]
            /\ Len(l) <= Len(q)
            /\ Len(q) <= Len(l) + 1
            /\ \A n \in 1..Len(l) :
                  /\ l[n].param = SweptParam(n)
                  /\ l[n].v = C4_Values[n]
            /\ pc = "returned" => (Len(q) = 12 /\ Len(l) = 12)

C4_Witness ==
    /\ cur = 5
    /\ pc = "returned"
    /\ Len(CallsTo("distance_modulus")) = 12

\* C5: the files written are at most one, model_comparison_example.png;
\* it exists whenever example_compare_models has returned, and only then.
C5_OnePlotFile ==
    /\ Len(files) <= 1
    /\ \A n \in 1..Len(files) : files[n] = "model_comparison_example.png"
    /\ outcome[4] = "returned" => Len(files) = 1
    /\ Len(files) = 1 => outcome[4] = "returned"

C5_Witness ==
    /\ asMain
    /\ pc = "exit"
    /\ outcome[4] = "returned"
    /\ outcome[5] = "returned"
    /\ files = <<"model_comparison_example.png">>

\* The sampler the run_mcmc call of example k returns.
C6_Sampler(k) ==
    [kind |-> "sampler",
     of |-> [kind |-> "LVILC_MCMC",
             data_loader |-> [kind |-> "CosmologyData"],
             param_names |-> param_names],
     initial_params |-> IF k = 1 THEN None ELSE InitialParams]

\* C6: in examples 1 and 2, get_results is called at most once, after
\* run_mcmc has returned and on the sampler it returned; when the example
\* returns, the last lines printed are a "Results:" heading and one line per
\* name of param_names, in that order, showing the median and the std the
\* results hold for that name, and the value returned is those results.
C6_PrintedMatchResults ==
    cur \in {1, 2} =>
        LET g == CallsTo("get_results")
            r == CallsTo("run_mcmc")
            n == Len(param_names)
            res == GetResults(C6_Sampler(cur).of, C6_Sampler(cur))
        IN  /\ Len(g) <= 1
            /\ Len(r) <= 1
            /\ Len(g) = 1 =>
                  /\ Len(r) = 1
                  /\ calls[Len(calls)] = g[1]
                  /\ calls[Len(calls) - 1] = r[1]
                  /\ g[1].sampler = C6_Sampler(cur)
            /\ pc = "returned" =>
                  /\ Len(g) = 1
                  /\ retval = res
                  /\ Len(out) > n
                  /\ out[Len(out) - n].tag = "results"
                  /\ \A j \in 1..n :
                        out[Len(out) - n + j] =
                            [tag |-> "param", name |-> param_names[j],
                             median |-> Fmt3e(retval[param_names[j]].median),
                             std |-> Fmt3e(retval[param_names[j]].std)]

C6_Witness ==
    /\ cur = 2
    /\ pc = "returned"
    /\ param_names = <<"M_bh", "H0">>
    /\ asMain
    /\ outcome[1] = "returned"

C7_NoOwnRaise ==
    \A k \in Examples :
        outcome[k] = "raised" => raisedLog[k].cls \in CollabClasses

\* C7: every example function that is started ends, by returning or by
\* raising, and it raises only an exception that one of its collaborator
\* calls raised: with collaborators that return normally it returns.
C7_ReturnsWithoutRaising ==
    /\ []C7_NoOwnRaise
    /\ \A k \in Examples :
          (outcome[k] = "running") ~> (outcome[k] \in {"returned", "raised"})

C7_Witness ==
    /\ asMain
    /\ pc = "exit"
    /\ \A k \in Examples : outcome[k] = "returned"

IsPrefix(a, b) == Len(a) <= Len(b) /\ a = SubSeq(b, 1, Len(a))

SensLines(param) ==
    SelectSeq(out, LAMBDA l : l.tag = "sens" /\ l.param = param)

SweepStarted(param) ==
    \E n \in DOMAIN out : out[n].tag = "sensitivity" /\ out[n].param = param

C8_State ==
    /\ outcome[4] = "raised" => files = << >>
    /\ (cur = 4 /\ pc = "raised" /\ calls[Len(calls)].fn = "distance_modulus")
          => (files = << >> /\ Lines("row") = << >>)
    /\ SweepStarted("M_bh") => Len(SensLines("H0")) = 4
    /\ SweepStarted("t_fall") => Len(SensLines("M_bh")) = 4
    /\ (outcome[5] = "raised" /\ Len(SensLines("H0")) < 4) =>
          /\ ~SweepStarted("M_bh")
          /\ ~SweepStarted("t_fall")
          /\ SensLines("M_bh") = << >>
          /\ SensLines("t_fall") = << >>

C8_Step ==
    /\ IsPrefix(out, out')
    /\ IsPrefix(files, files')
    /\ pc = "raised" =>
          /\ pc' \in {"try", "main_banner", "crashed"}
          /\ files' = files
    /\ \A k \in Examples : outcome[k] = "raised" => outcome'[k] = "raised"

\* C8: once a collaborator call raises inside an example, no further
\* statement of that example runs and nothing is undone.  Lines printed and
\* files written stay; an example that raised stays raised and control goes
\* to the next try statement, the banner or out of the script; no plot file
\* exists when example_compare_models raised; and a sweep of
\* example_parameter_sensitivity starts only after the sweep before it
\* printed all four of its lines.
C8_Abandoned == []C8_State /\ [][C8_Step]_vars

C8_Witness ==
    /\ asMain
    /\ cur = 5
    /\ pc = "raised"
    /\ loc.s = 1
    /\ loc.i = 2
    /\ outcome[4] = "raised"
    /\ Lines("comparison") = << >>
    /\ Len(SensLines("H0")) = 2

\* The parameters in which model m differs from the base triple
\* (H0 = -6.73, M_bh = 1e23, t_fall = 13.8).
OffBase(m) ==
    {p \in {"H0", "M_bh", "t_fall"} :
        \/ p = "H0" /\ m.H0 # -673
        \/ p = "M_bh" /\ m.M_bh # [m |-> 1, e |-> 23]
        \/ p = "t_fall" /\ m.t_fall # 138}

\* C9 as stated: every model example_parameter_sensitivity constructs
\* differs from the base triple in exactly one parameter.
C9_ExactlyOneDiffers ==
    cur = 5 =>
        \A n \in 1..Len(CallsTo("LVILCModel")) :
            Cardinality(OffBase(CallsTo("LVILCModel")[n].model)) = 1

\* C9 amended: every model example_parameter_sensitivity constructs differs
\* from the base triple in at most one parameter, the one its sweep varies
\* (the two others hold their base values); each swept value gets a model of
\* its own, twelve in all when the function returns, and each model is
\* queried once, at z = 1.0, right after it is constructed.
C9_OnlySweptDiffers ==
    cur = 5 =>
        LET c == CallsTo("LVILCModel")
            q == CallsTo("distance_modulus")
        IN  /\ \A n \in 1..Len(c) :
                  /\ OffBase(c[n].model) \subseteq {SweptParam(n)}
                  /\ calls[2 * n - 1] = c[n]
            /\ \A n \in 1..Len(q) :
                  /\ q[n].z = 10
                  /\ q[n].model = c[n].model
                  /\ calls[2 * n] = q[n]
            /\ Len(calls) = Len(c) + Len(q)
            /\ pc = "returned" => (Len(c) = 12 /\ Len(q) = 12)

C9_Witness ==
    /\ cur = 5
    /\ pc = "returned"
    /\ Len(CallsTo("LVILCModel")) = 12
    /\ Cardinality({CallsTo("LVILCModel")[n].model : n \in 1..12}) = 10

\* The model of line 122.
C10_Model ==
    [kind |-> "LVILCModel", H0 |-> -673, M_bh |-> [m |-> 1, e |-> 23],
     t_fall |-> 138]

\* C10: in example_compare_models the n-th LVILC query is at the n-th of the
\* 20 grid points 0.1, 0.2, ..., 2.0 and the LCDM series is computed on the
\* same 20 points; the table has at most 5 rows, for the grid indices
\* 0, 4, 8, 12, 16 in that order (all 5 once the table is done), each showing
\* the LVILC value minus the LCDM value at its own index; both plotted series
\* have all 20 points over the same grid.
C10_TableAndPlot ==
    cur = 4 =>
        LET q == CallsTo("distance_modulus")
            rows == Lines("row")
            plots == CallsTo("plot")
            grid == [n \in 1..20 |-> n]
            tableDone == pc \in {"e4_save", "returned"} \/ plots # << >>
        IN  /\ Len(q) <= 20
            /\ \A n \in 1..Len(q) : q[n].z = grid[n] /\ q[n].model = C10_Model
            /\ (pc = "e4_table" \/ tableDone) =>
                  /\ Len(q) = 20
                  /\ loc.z_range = grid
                  /\ loc.lvilc_mu = [n \in 1..20 |->
                                        DistanceModulus(C10_Model, grid[n])]
                  /\ loc.lcdm_mu = [n \in 1..20 |->
                                        lcdm_distance_modulus[grid[n]]]
            /\ Len(rows) <= 5
            /\ \A n \in 1..Len(rows) :
                  LET i == 4 * (n - 1)
                  IN  /\ rows[n].i = i
                      /\ rows[n].z = 10 * grid[i + 1]
                      /\ rows[n].diff =
                            Fmt2f(DistanceModulus(C10_Model, grid[i + 1])
                                  - lcdm_distance_modulus[grid[i + 1]])
            /\ tableDone => Len(rows) = 5
            /\ Len(plots) <= 2
            /\ \A n \in 1..Len(plots) :
                  /\ plots[n].x = grid
                  /\ plots[n].y = IF n = 1 THEN loc.lvilc_mu ELSE loc.lcdm_mu
            /\ pc \in {"e4_save", "returned"} => Len(plots) = 2

C10_Witness ==
    /\ cur = 4
    /\ pc = "returned"
    /\ Len(Lines("row")) = 5
    /\ Len(CallsTo("plot")) = 2

====
